---------------------------- MODULE Spec2Model ----------------------------
(***************************************************************************)
(* A model of the HDL parser module src/parser/generated/hdl-parser.js:    *)
(* the regexp tokenizer with its location tracking, the table-driven LR    *)
(* shift/reduce loop of yyparse.parse, the semantic actions of the         *)
(* productions, and the module-level lists inputs / outputs / parts the    *)
(* actions push to.  A text is a sequence of one-character strings; the    *)
(* character at JavaScript offset k is string[k + 1].                      *)
(***************************************************************************)
EXTENDS Integers, Sequences, FiniteSets, TLC

(***************************************************************************)
(* Bounds of the exploration.                                              *)
(***************************************************************************)
\* Number of parse calls made on one loaded parser module.
MaxCalls == 2
\* Largest number of sections in a generated chip body.
MaxSections == 4
\* Number of timer callbacks of runSlice whose output is recorded in one
\* process, and bound of the index of a run over an empty list.
MaxTicks == 3

(***************************************************************************)
(* Characters and character classes of the regexps in lexRules.            *)
(***************************************************************************)
NL == "\n"
TAB == "\t"

\* \w of a JavaScript regexp: [A-Za-z0-9_]
WordChars ==
  {"A","B","C","D","E","F","G","H","I","J","K","L","M","N","O","P","Q","R",
   "S","T","U","V","W","X","Y","Z",
   "a","b","c","d","e","f","g","h","i","j","k","l","m","n","o","p","q","r",
   "s","t","u","v","w","x","y","z",
   "0","1","2","3","4","5","6","7","8","9","_"}

\* \s of a JavaScript regexp, as far as the texts of the model use it.
SpaceChars == {" ", TAB, NL, "\r", "\f"}

\* Mutant of LineTerminators: `.` matches every character.
NoLineTerminators == {}

\* What `.` does not match: the line terminators.
LineTerminators == {NL, "\r"}

\* string.slice(k)
slice(string, k) == SubSeq(string, k + 1, Len(string))

\* Does string start with the characters of prefix?
StartsWith(string, prefix) ==
  /\ Len(string) >= Len(prefix)
  /\ SubSeq(string, 1, Len(prefix)) = prefix

\* The smallest element of a non-empty set of integers.
Min(S) == CHOOSE m \in S : \A n \in S : m <= n

\* Length of the longest prefix of string whose characters are all in class.
RunLength(string, class) ==
  LET others == {k \in 1..Len(string) : string[k] \notin class}
  IN IF others = {} THEN Len(string) ELSE Min(others) - 1

\* Offset (0-based) of the first "*/" at or after offset k, or -1.
FindCommentEnd(string, k) ==
  LET ends == {j \in k..(Len(string) - 2) :
                 string[j + 1] = "*" /\ string[j + 2] = "/"}
  IN IF ends = {} THEN -1 ELSE Min(ends)

(***************************************************************************)
(* Tokens.                                                                 *)
(***************************************************************************)
EOF == "$"

kwCHIP == <<"C","H","I","P">>
kwIN == <<"I","N">>
kwOUT == <<"O","U","T">>
kwPARTS == <<"P","A","R","T","S">>

\* Encoded tokens map: token type -> column of the parsing table.
tokens ==
  [t \in {"CHIP","IN","OUT","PARTS","ID","'{'","'}'","';'","':'","','",
          "'('","')'","'='","$"} |->
     CASE t = "CHIP" -> 12 [] t = "IN" -> 13 [] t = "OUT" -> 14
       [] t = "PARTS" -> 15 [] t = "ID" -> 16 [] t = "'{'" -> 17
       [] t = "'}'" -> 18 [] t = "';'" -> 19 [] t = "':'" -> 20
       [] t = "','" -> 21 [] t = "'('" -> 22 [] t = "')'" -> 23
       [] t = "'='" -> 24 [] t = "$" -> 25]

\* The token type no lex rule returns: the rule's handler skips the match.
SKIP == "skip"

\* Length of the match of lex rule i at the start of string, -1 for no match.
LexRuleMatch(i, string) ==
  CASE i = 0 ->   \* /^\/\/.*/
         IF StartsWith(string, <<"/","/">>)
         THEN 2 + RunLength(slice(string, 2),
                            {string[k] : k \in 1..Len(string)} \ LineTerminators)
         ELSE -1
    [] i = 1 ->   \* /^\/\*(.|\s)*?\*\//
         IF StartsWith(string, <<"/","*">>) /\ FindCommentEnd(string, 2) >= 0
         THEN FindCommentEnd(string, 2) + 2
         ELSE -1
    [] i = 2 ->   \* /^\s+/
         IF RunLength(string, SpaceChars) > 0
         THEN RunLength(string, SpaceChars) ELSE -1
    [] i = 3 -> IF StartsWith(string, kwCHIP) THEN 4 ELSE -1
    [] i = 4 -> IF StartsWith(string, kwIN) THEN 2 ELSE -1
    [] i = 5 -> IF StartsWith(string, kwOUT) THEN 3 ELSE -1
    [] i = 6 -> IF StartsWith(string, kwPARTS) THEN 5 ELSE -1
    [] i = 7 ->   \* /^\w+/
         IF RunLength(string, WordChars) > 0
         THEN RunLength(string, WordChars) ELSE -1
    [] i = 8 -> IF StartsWith(string, <<"{">>) THEN 1 ELSE -1
    [] i = 9 -> IF StartsWith(string, <<"}">>) THEN 1 ELSE -1
    [] i = 10 -> IF StartsWith(string, <<";">>) THEN 1 ELSE -1
    [] i = 11 -> IF StartsWith(string, <<":">>) THEN 1 ELSE -1
    [] i = 12 -> IF StartsWith(string, <<",">>) THEN 1 ELSE -1
    [] i = 13 -> IF StartsWith(string, <<"(">>) THEN 1 ELSE -1
    [] i = 14 -> IF StartsWith(string, <<")">>) THEN 1 ELSE -1
    [] i = 15 -> IF StartsWith(string, <<"=">>) THEN 1 ELSE -1

\* What the handler of lex rule i returns.
LexRuleToken(i) ==
  CASE i \in {0, 1, 2} -> SKIP
    [] i = 3 -> "CHIP" [] i = 4 -> "IN" [] i = 5 -> "OUT" [] i = 6 -> "PARTS"
    [] i = 7 -> "ID"
    [] i = 8 -> "'{'" [] i = 9 -> "'}'" [] i = 10 -> "';'" [] i = 11 -> "':'"
    [] i = 12 -> "','" [] i = 13 -> "'('" [] i = 14 -> "')'" [] i = 15 -> "'='"

\* Mutant of lexRulesForState: the ID rule is tried before the keyword rules.
lexRulesIdFirst == <<0, 1, 2, 7, 3, 4, 5, 6, 8, 9, 10, 11, 12, 13, 14, 15>>

\* lexRulesByConditions["INITIAL"]: the rules in the order they are tried.
lexRulesForState == <<0, 1, 2, 3, 4, 5, 6, 7, 8, 9, 10, 11, 12, 13, 14, 15>>

EOF_TOKEN == [type |-> EOF, value |-> <<>>]

(***************************************************************************)
(* The tokenizer object.                                                   *)
(***************************************************************************)
\* Mutant of initString: lines are counted from 0.
initStringLineZero(string) ==
  [string |-> string,
   cursor |-> 0,
   states |-> <<"INITIAL">>,
   tokensQueue |-> <<>>,
   currentLine |-> 0,
   currentColumn |-> 0,
   currentLineBeginOffset |-> 0,
   tokenStartOffset |-> 0,
   tokenEndOffset |-> 0,
   tokenStartLine |-> 0,
   tokenEndLine |-> 0,
   tokenStartColumn |-> 0,
   tokenEndColumn |-> 0]

initString(string) ==
  [string |-> string,
   cursor |-> 0,
   states |-> <<"INITIAL">>,
   tokensQueue |-> <<>>,
   currentLine |-> 1,
   currentColumn |-> 0,
   currentLineBeginOffset |-> 0,
   tokenStartOffset |-> 0,
   tokenEndOffset |-> 0,
   tokenStartLine |-> 1,
   tokenEndLine |-> 1,
   tokenStartColumn |-> 0,
   tokenEndColumn |-> 0]

isEOF(tk) == tk.cursor = Len(tk.string)

hasMoreTokens(tk) == tk.cursor <= Len(tk.string)

\* The offsets (0-based, ascending) of the newlines in matched.
NewlineOffsets(matched) == {k \in 0..(Len(matched) - 1) : matched[k + 1] = NL}

\* The largest element of a non-empty set of integers.
Max(S) == CHOOSE m \in S : \A n \in S : n <= m

\* Mutant of _captureLocation: the newlines in matched are not counted.
_captureLocationOneLine(tk, matched) ==
  LET tokenEndOffset == tk.cursor + Len(matched)
  IN [tk EXCEPT
        !.tokenStartOffset = tk.cursor,
        !.tokenStartLine = tk.currentLine,
        !.tokenStartColumn = tk.cursor - tk.currentLineBeginOffset,
        !.tokenEndOffset = tokenEndOffset,
        !.tokenEndLine = tk.currentLine,
        !.tokenEndColumn = tokenEndOffset - tk.currentLineBeginOffset,
        !.currentColumn = tokenEndOffset - tk.currentLineBeginOffset]

_captureLocation(tk, matched) ==
  LET tokenStartOffset == tk.cursor
      nls == NewlineOffsets(matched)
      \* the while loop over nlRe.exec: one line more per newline, and the
      \* line begins after the last of them
      currentLine == tk.currentLine + Cardinality(nls)
      currentLineBeginOffset ==
        IF nls = {} THEN tk.currentLineBeginOffset
        ELSE tokenStartOffset + Max(nls) + 1
      tokenEndOffset == tk.cursor + Len(matched)
  IN [tk EXCEPT
        !.tokenStartOffset = tokenStartOffset,
        !.tokenStartLine = tk.currentLine,
        !.tokenStartColumn = tokenStartOffset - tk.currentLineBeginOffset,
        !.currentLine = currentLine,
        !.currentLineBeginOffset = currentLineBeginOffset,
        !.tokenEndOffset = tokenEndOffset,
        !.tokenEndLine = currentLine,
        !.tokenEndColumn = tokenEndOffset - currentLineBeginOffset,
        !.currentColumn = tokenEndOffset - currentLineBeginOffset]

_toToken(tk, tokenType, yytext) ==
  [type |-> tokenType,
   value |-> yytext,
   startOffset |-> tk.tokenStartOffset,
   endOffset |-> tk.tokenEndOffset,
   startLine |-> tk.tokenStartLine,
   endLine |-> tk.tokenEndLine,
   startColumn |-> tk.tokenStartColumn,
   endColumn |-> tk.tokenEndColumn]

\* The tokenizer after _match(string, regexp) matched the first n characters.
_match(tk, matched) ==
  [_captureLocation(tk, matched) EXCEPT !.cursor = tk.cursor + Len(matched)]

\* string.split('\n'): the lines of the text, without their newlines.
split(string) ==
  LET limits == {k \in 1..Len(string) : string[k] = NL} \cup
                {0, Len(string) + 1}
      Limit(i) == CHOOSE k \in limits :
                    Cardinality({j \in limits : j < k}) = i
  IN [i \in 1..(Cardinality(limits) - 1) |->
        SubSeq(string, Limit(i - 1) + 1, Limit(i) - 1)]

\* The SyntaxError throwUnexpectedToken throws: the parts of its message.
\* lineData is present only when the line exists and is not empty.
throwUnexpectedToken(tk, symbol, line, column, site) ==
  LET lines == split(tk.string)
      lineSource == IF line \in 1..Len(lines) THEN lines[line] ELSE <<>>
  IN [kind |-> "UnexpectedToken",
      site |-> site,
      symbol |-> symbol,
      line |-> line,
      column |-> column,
      hasLineData |-> lineSource # <<>>,
      lineSource |-> lineSource,
      pad |-> IF lineSource # <<>> THEN column ELSE 0]

\* The SyntaxError of unexpectedEndOfInput: a message without a location.
unexpectedEndOfInput == [kind |-> "UnexpectedEndOfInput"]

\* The lex rules of lexRulesForState that match string.
MatchingRules(string) ==
  {n \in 1..Len(lexRulesForState) : LexRuleMatch(lexRulesForState[n], string) >= 0}

\* The element of a singleton set.
The(S) == CHOOSE x \in S : TRUE

\* getNextToken: [tk: the tokenizer afterwards, token: the token returned,
\* thrown: the error thrown instead (token is then absent)].  Each local is
\* bound as the element of a singleton set, so that it is computed once.
RECURSIVE getNextToken(_)
getNextToken(tk) ==
  IF Len(tk.tokensQueue) > 0
  THEN [tk |-> [tk EXCEPT !.tokensQueue = Tail(@)],
        token |-> _toToken(tk, Head(tk.tokensQueue), <<>>)]
  ELSE IF ~hasMoreTokens(tk)
  THEN [tk |-> tk, token |-> EOF_TOKEN]
  ELSE
    The({The({
      IF matching # {}
      THEN The({The({The({
             IF LexRuleToken(lexRuleIndex) = SKIP
             THEN getNextToken(tk2)
             ELSE [tk |-> tk2,
                   token |-> _toToken(tk2, LexRuleToken(lexRuleIndex), matched)]
             : tk2 \in {_match(tk, matched)}})
             : matched \in {SubSeq(string, 1, LexRuleMatch(lexRuleIndex, string))}})
             : lexRuleIndex \in {lexRulesForState[CHOOSE n \in matching :
                                                   \A m \in matching : n <= m]}})
      ELSE IF isEOF(tk)
      THEN [tk |-> [tk EXCEPT !.cursor = @ + 1], token |-> EOF_TOKEN]
      ELSE [tk |-> tk,
            thrown |-> throwUnexpectedToken(tk, <<string[1]>>, tk.currentLine,
                                            tk.currentColumn, "getNextToken")]
      : matching \in {MatchingRules(string)}})
      : string \in {slice(tk.string, tk.cursor)}})

(***************************************************************************)
(* The grammar: productions and parsing table.                             *)
(***************************************************************************)
\* Mutant of productions: the Chip production has no semantic action.
productionsChipWithoutAction ==
  << <<-1, 1, TRUE>>, <<0, 5, FALSE>>, <<1, 3, FALSE>>, <<2, 1, TRUE>>,
     <<2, 1, TRUE>>, <<2, 1, TRUE>>, <<3, 3, TRUE>>, <<4, 3, TRUE>>,
     <<5, 3, TRUE>>, <<6, 1, TRUE>>, <<6, 3, TRUE>>, <<7, 1, TRUE>>,
     <<7, 1, TRUE>>, <<7, 1, TRUE>>, <<7, 1, TRUE>>, <<7, 1, TRUE>>,
     <<8, 1, TRUE>>, <<8, 2, TRUE>>, <<9, 5, TRUE>>, <<10, 1, TRUE>>,
     <<10, 3, TRUE>>, <<11, 3, TRUE>> >>

\* productions[p + 1] = <<left-hand side, length of the right-hand side,
\* whether the production has a semantic action>> of production p.
productions ==
  << <<-1, 1, TRUE>>,    \*  0  $accept  -> Chip
     <<0, 5, TRUE>>,     \*  1  Chip     -> CHIP Name '{' Sections '}'
     <<1, 3, FALSE>>,    \*  2  Sections -> Section Section Section
     <<2, 1, TRUE>>,     \*  3  Section  -> Inputs
     <<2, 1, TRUE>>,     \*  4  Section  -> Outputs
     <<2, 1, TRUE>>,     \*  5  Section  -> Parts
     <<3, 3, TRUE>>,     \*  6  Inputs   -> IN Names ';'
     <<4, 3, TRUE>>,     \*  7  Outputs  -> OUT Names ';'
     <<5, 3, TRUE>>,     \*  8  Parts    -> PARTS ':' ChipCalls
     <<6, 1, TRUE>>,     \*  9  Names    -> Name
     <<6, 3, TRUE>>,     \* 10  Names    -> Names ',' Name
     <<7, 1, TRUE>>,     \* 11  Name     -> ID
     <<7, 1, TRUE>>,     \* 12  Name     -> CHIP
     <<7, 1, TRUE>>,     \* 13  Name     -> IN
     <<7, 1, TRUE>>,     \* 14  Name     -> OUT
     <<7, 1, TRUE>>,     \* 15  Name     -> PARTS
     <<8, 1, TRUE>>,     \* 16  ChipCalls -> ChipCall
     <<8, 2, TRUE>>,     \* 17  ChipCalls -> ChipCalls ChipCall
     <<9, 5, TRUE>>,     \* 18  ChipCall -> ID '(' Arguments ')' ';'
     <<10, 1, TRUE>>,    \* 19  Arguments -> Argument
     <<10, 3, TRUE>>,    \* 20  Arguments -> Arguments ',' Argument
     <<11, 3, TRUE>> >>  \* 21  Argument -> ID '=' ID

\* Entries of the parsing table: "s<n>", "r<n>", "acc", and a goto state <n>.
Sh(n) == [a |-> "s", n |-> n]
Rd(n) == [a |-> "r", n |-> n]
Go(n) == [a |-> "goto", n |-> n]
ACC == [a |-> "acc", n |-> 0]

\* table[state + 1]: column (token or non-terminal number) -> entry.
table ==
  <<
    (*  0 *) (0 :> Go(30) @@ 12 :> Sh(1)),
    (*  1 *) (7 :> Go(2) @@ 12 :> Sh(32) @@ 13 :> Sh(33) @@ 14 :> Sh(34) @@ 15 :> Sh(35) @@ 16 :> Sh(31)),
    (*  2 *) (17 :> Sh(3)),
    (*  3 *) (1 :> Go(4) @@ 2 :> Go(5) @@ 3 :> Go(36) @@ 4 :> Go(37) @@ 5 :> Go(38) @@ 13 :> Sh(6) @@ 14 :> Sh(7) @@ 15 :> Sh(8)),
    (*  4 *) (18 :> Sh(39)),
    (*  5 *) (2 :> Go(9) @@ 3 :> Go(36) @@ 4 :> Go(37) @@ 5 :> Go(38) @@ 13 :> Sh(6) @@ 14 :> Sh(7) @@ 15 :> Sh(8)),
    (*  6 *) (6 :> Go(10) @@ 7 :> Go(11) @@ 12 :> Sh(32) @@ 13 :> Sh(33) @@ 14 :> Sh(34) @@ 15 :> Sh(35) @@ 16 :> Sh(31)),
    (*  7 *) (6 :> Go(14) @@ 7 :> Go(11) @@ 12 :> Sh(32) @@ 13 :> Sh(33) @@ 14 :> Sh(34) @@ 15 :> Sh(35) @@ 16 :> Sh(31)),
    (*  8 *) (20 :> Sh(15)),
    (*  9 *) (2 :> Go(40) @@ 3 :> Go(36) @@ 4 :> Go(37) @@ 5 :> Go(38) @@ 13 :> Sh(6) @@ 14 :> Sh(7) @@ 15 :> Sh(8)),
    (* 10 *) (19 :> Sh(41) @@ 21 :> Sh(12)),
    (* 11 *) (19 :> Rd(9) @@ 21 :> Rd(9)),
    (* 12 *) (7 :> Go(13) @@ 12 :> Sh(32) @@ 13 :> Sh(33) @@ 14 :> Sh(34) @@ 15 :> Sh(35) @@ 16 :> Sh(31)),
    (* 13 *) (19 :> Rd(10) @@ 21 :> Rd(10)),
    (* 14 *) (19 :> Sh(42) @@ 21 :> Sh(12)),
    (* 15 *) (8 :> Go(16) @@ 9 :> Go(17) @@ 16 :> Sh(18)),
    (* 16 *) (9 :> Go(19) @@ 13 :> Rd(8) @@ 14 :> Rd(8) @@ 15 :> Rd(8) @@ 16 :> Sh(18) @@ 18 :> Rd(8)),
    (* 17 *) (13 :> Rd(16) @@ 14 :> Rd(16) @@ 15 :> Rd(16) @@ 16 :> Rd(16) @@ 18 :> Rd(16)),
    (* 18 *) (22 :> Sh(20)),
    (* 19 *) (13 :> Rd(17) @@ 14 :> Rd(17) @@ 15 :> Rd(17) @@ 16 :> Rd(17) @@ 18 :> Rd(17)),
    (* 20 *) (10 :> Go(21) @@ 11 :> Go(22) @@ 16 :> Sh(23)),
    (* 21 *) (21 :> Sh(25) @@ 23 :> Sh(24)),
    (* 22 *) (21 :> Rd(19) @@ 23 :> Rd(19)),
    (* 23 *) (24 :> Sh(28)),
    (* 24 *) (19 :> Sh(26)),
    (* 25 *) (11 :> Go(27) @@ 16 :> Sh(23)),
    (* 26 *) (13 :> Rd(18) @@ 14 :> Rd(18) @@ 15 :> Rd(18) @@ 16 :> Rd(18) @@ 18 :> Rd(18)),
    (* 27 *) (21 :> Rd(20) @@ 23 :> Rd(20)),
    (* 28 *) (16 :> Sh(29)),
    (* 29 *) (21 :> Rd(21) @@ 23 :> Rd(21)),
    (* 30 *) (25 :> ACC),
    (* 31 *) (17 :> Rd(11) @@ 19 :> Rd(11) @@ 21 :> Rd(11)),
    (* 32 *) (17 :> Rd(12) @@ 19 :> Rd(12) @@ 21 :> Rd(12)),
    (* 33 *) (17 :> Rd(13) @@ 19 :> Rd(13) @@ 21 :> Rd(13)),
    (* 34 *) (17 :> Rd(14) @@ 19 :> Rd(14) @@ 21 :> Rd(14)),
    (* 35 *) (17 :> Rd(15) @@ 19 :> Rd(15) @@ 21 :> Rd(15)),
    (* 36 *) (13 :> Rd(3) @@ 14 :> Rd(3) @@ 15 :> Rd(3) @@ 18 :> Rd(3)),
    (* 37 *) (13 :> Rd(4) @@ 14 :> Rd(4) @@ 15 :> Rd(4) @@ 18 :> Rd(4)),
    (* 38 *) (13 :> Rd(5) @@ 14 :> Rd(5) @@ 15 :> Rd(5) @@ 18 :> Rd(5)),
    (* 39 *) (25 :> Rd(1)),
    (* 40 *) (18 :> Rd(2)),
    (* 41 *) (13 :> Rd(6) @@ 14 :> Rd(6) @@ 15 :> Rd(6) @@ 18 :> Rd(6)),
    (* 42 *) (13 :> Rd(7) @@ 14 :> Rd(7) @@ 15 :> Rd(7) @@ 18 :> Rd(7))
  >>

(***************************************************************************)
(* Semantic values and locations.                                          *)
(***************************************************************************)
\* null / undefined, where a location or a value is absent.
Null == [null |-> TRUE]

IsNull(x) == DOMAIN x = {"null"}

yyloc(captureLocations, start, end) ==
  IF ~captureLocations THEN Null
  ELSE IF IsNull(start) \/ IsNull(end)
  THEN (IF IsNull(start) THEN end ELSE start)
  ELSE [startOffset |-> start.startOffset,
        endOffset |-> end.endOffset,
        startLine |-> start.startLine,
        endLine |-> end.endLine,
        startColumn |-> start.startColumn,
        endColumn |-> end.endColumn]

\* The location object a shift takes from the token.
TokenLoc(tok) ==
  [startOffset |-> tok.startOffset,
   endOffset |-> tok.endOffset,
   startLine |-> tok.startLine,
   endLine |-> tok.endLine,
   startColumn |-> tok.startColumn,
   endColumn |-> tok.endColumn]

\* Mutant of ActionValue: the list productions put the new item first.
ActionValuePrepends(p, v, m) ==
  CASE p = 1 -> [type |-> "Chip", name |-> v[2], inputs |-> m.inputs,
                 outputs |-> m.outputs, parts |-> m.parts]
    [] p \in {6, 7, 8} -> m.value
    [] p \in {9, 16, 19} -> <<v[1]>>
    [] p \in {10, 20} -> <<v[3]>> \o v[1]
    [] p = 17 -> <<v[2]>> \o v[1]
    [] p = 18 -> [type |-> "ChipCall", name |-> v[1], arguments |-> v[3]]
    [] p = 21 -> [type |-> "Argument", name |-> v[1], value |-> v[3]]
    [] OTHER -> v[1]

\* The value production p's action leaves in `__`; v are the semantic values of
\* the right-hand side and m the module-level variables.  The actions of
\* productions 6, 7 and 8 assign nothing to `__`: it keeps its last value.
ActionValue(p, v, m) ==
  CASE p = 1 -> [type |-> "Chip", name |-> v[2], inputs |-> m.inputs,
                 outputs |-> m.outputs, parts |-> m.parts]
    [] p \in {6, 7, 8} -> m.value
    [] p \in {9, 16, 19} -> <<v[1]>>
    [] p \in {10, 20} -> Append(v[1], v[3])
    [] p = 17 -> Append(v[1], v[2])
    [] p = 18 -> [type |-> "ChipCall", name |-> v[1], arguments |-> v[3]]
    [] p = 21 -> [type |-> "Argument", name |-> v[1], value |-> v[3]]
    [] OTHER -> v[1]     \* productions 0, 3, 4, 5, 11 .. 15: __ = _1

\* The module-level lists after production p's action.
ActionInputs(p, v, m) == IF p = 6 THEN m.inputs \o v[2] ELSE m.inputs

ActionOutputs(p, v, m) == IF p = 7 THEN m.outputs \o v[2] ELSE m.outputs

ActionParts(p, v, m) == IF p = 8 THEN m.parts \o v[3] ELSE m.parts

(***************************************************************************)
(* The state of the parser module.                                         *)
(***************************************************************************)
VARIABLES
  tokenizer,     \* the tokenizer object (its fields)
  stack,         \* the parsing stack: state numbers and symbol entries
  token,         \* parse's local `token`: the lookahead
  shiftedToken,  \* parse's local `shiftedToken`
  yyvalue,       \* the module-level `__`: result of the last semantic action
  yylocation,    \* the module-level `__loc`
  options,       \* yy.options: the parsing options in force
  globalOptions, \* parse's local `globalOptions`
  inputs,        \* the module-level list `inputs`
  outputs,       \* the module-level list `outputs`
  parts,         \* the module-level list `parts`
  pc,            \* "idle", "parsing", "returned" or "threw"
  returned,      \* what the last parse call returned
  thrown,        \* what the last parse call threw
  calls,         \* number of parse calls begun on this module
  prev,          \* how the parse call before the current one ended
  held,          \* the first AST a parse call returned, as it was returned
  cli            \* the process of the command line tool

vars == <<tokenizer, stack, token, shiftedToken, yyvalue, yylocation,
          options, globalOptions, inputs, outputs, parts, pc, returned,
          thrown, calls, prev, held, cli>>

\* An entry of the stack that is a state number.
StateEntry(n) == [state |-> n]

\* The command line tool has not been started: the parser module is used
\* through parse alone.
CliOff == [pc |-> "off"]

\* yy.options as set when the module is loaded.
DefaultOptions == [captureLocations |-> TRUE]

\* Object.assign({}, yy.options, parseOptions)
AssignOptions(yyOptions, parseOptions) ==
  [k \in DOMAIN yyOptions \cup DOMAIN parseOptions |->
     IF k \in DOMAIN parseOptions THEN parseOptions[k] ELSE yyOptions[k]]

\* The parseOptions argument of a call: absent, or locations turned off.
ParseOptionsChoices == {Null, [captureLocations |-> FALSE]}

Top(stk) == stk[Len(stk)]

\* The entry of the parsing table for the state on top of the stack and the
\* column of the lookahead; HasEntry is table[state].hasOwnProperty(column).
CurrentRow == table[Top(stack).state + 1]

CurrentColumn == tokens[token.type]

\* Mutant of HasEntry: where a Name is expected (states 1, 6, 7 and 12) the
\* keyword columns are not looked up.
HasEntryKeywordsReserved ==
  /\ CurrentColumn \in DOMAIN CurrentRow
  /\ ~(Top(stack).state \in {1, 6, 7, 12} /\ CurrentColumn \in 12..15)

HasEntry == CurrentColumn \in DOMAIN CurrentRow

CurrentEntry == CurrentRow[CurrentColumn]

\* Mutant of LoopContinues: the loop goes on only while tokens are left.
LoopContinuesWhileTokens(tk, stk) == hasMoreTokens(tk)

\* The condition of the do-while loop.
LoopContinues(tk, stk) == hasMoreTokens(tk) \/ Len(stk) > 1

\* Mutant of unexpectedToken: the column reported is the token's end column.
unexpectedTokenAtEnd(tk, tok) ==
  IF tok.type = EOF
  THEN unexpectedEndOfInput
  ELSE throwUnexpectedToken(tk, tok.value, tok.startLine, tok.endColumn,
                            "unexpectedToken")

\* Mutant of unexpectedToken: the end of input is reported like a token, at
\* the place of the last token matched.
unexpectedTokenAlwaysLocated(tk, tok) ==
  IF tok.type = EOF
  THEN throwUnexpectedToken(tk, tok.value, tk.tokenStartLine,
                            tk.tokenStartColumn, "unexpectedToken")
  ELSE throwUnexpectedToken(tk, tok.value, tok.startLine, tok.startColumn,
                            "unexpectedToken")

\* What unexpectedToken(token) throws.
unexpectedToken(tk, tok) ==
  IF tok.type = EOF
  THEN unexpectedEndOfInput
  ELSE throwUnexpectedToken(tk, tok.value, tok.startLine, tok.startColumn,
                            "unexpectedToken")

\* The state after construction: the module has just been loaded.
Init ==
  /\ tokenizer = initString(<<>>)
  /\ stack = <<>>
  /\ token = Null
  /\ shiftedToken = Null
  /\ yyvalue = Null
  /\ yylocation = Null
  /\ options = DefaultOptions
  /\ globalOptions = Null
  /\ inputs = <<>>
  /\ outputs = <<>>
  /\ parts = <<>>
  /\ pc = "idle"
  /\ returned = Null
  /\ thrown = Null
  /\ calls = 0
  /\ prev = "none"
  /\ held = Null
  /\ cli = CliOff

\* parse(string, parseOptions), up to the do-while loop: initString, the
\* options of this call, stack reset, and the first getNextToken, which
\* throws on a character no lex rule matches.
ParseBegin(string, parseOptions) ==
  /\ pc \in {"idle", "returned", "threw"}
  /\ calls < MaxCalls
  /\ calls' = calls + 1
  /\ prev' = IF pc = "idle" THEN "none" ELSE pc
  /\ stack' = <<StateEntry(0)>>
  /\ shiftedToken' = Null
  /\ returned' = Null
  /\ globalOptions' = options
  /\ options' = IF IsNull(parseOptions) THEN options
                ELSE AssignOptions(options, parseOptions)
  /\ LET r == getNextToken(initString(string))
     IN /\ tokenizer' = r.tk
        /\ IF "thrown" \in DOMAIN r
           THEN /\ pc' = "threw"
                /\ thrown' = r.thrown
                /\ token' = Null
           ELSE /\ pc' = "parsing"
                /\ thrown' = Null
                /\ token' = r.token
  /\ UNCHANGED <<yyvalue, yylocation, inputs, outputs, parts, held, cli>>

\* The lookahead has no entry in the row of the current state.
Reject ==
  /\ pc = "parsing"
  /\ ~HasEntry
  /\ options' = globalOptions
  /\ pc' = "threw"
  /\ thrown' = unexpectedToken(tokenizer, token)
  /\ UNCHANGED <<tokenizer, stack, token, shiftedToken, yyvalue, yylocation,
                 globalOptions, inputs, outputs, parts, returned, calls,
                 prev, held, cli>>

\* Shift action: push the token and the new state, read the next token.
Shift ==
  /\ pc = "parsing"
  /\ HasEntry
  /\ CurrentEntry.a = "s"
  /\ LET loc == IF options.captureLocations THEN TokenLoc(token) ELSE Null
         pushed == stack \o
                   <<[symbol |-> tokens[token.type],
                      semanticValue |-> token.value,
                      loc |-> loc],
                     StateEntry(CurrentEntry.n)>>
     IN \E r \in {getNextToken(tokenizer)} :
        /\ stack' = pushed
        /\ shiftedToken' = token
        /\ tokenizer' = r.tk
        /\ IF "thrown" \in DOMAIN r
           THEN /\ pc' = "threw"
                /\ thrown' = r.thrown
                /\ token' = token
                /\ returned' = returned
           ELSE /\ thrown' = thrown
                /\ token' = r.token
                /\ IF LoopContinues(r.tk, pushed)
                   THEN pc' = "parsing" /\ returned' = returned
                   ELSE pc' = "returned" /\ returned' = Null
  /\ UNCHANGED <<yyvalue, yylocation, options, globalOptions, inputs, outputs,
                 parts, calls, prev, held, cli>>

\* The symbol entries a reduce by a right-hand side of length n pops, first
\* symbol first.
PoppedEntries(stk, n) ==
  [k \in 1..n |-> stk[Len(stk) - 2 * (n - k) - 1]]

\* Reduce action: pop the right-hand side, run the semantic action, push the
\* left-hand side and the goto state.
Reduce ==
  /\ pc = "parsing"
  /\ HasEntry
  /\ CurrentEntry.a = "r"
  /\ LET productionNumber == CurrentEntry.n
         production == productions[productionNumber + 1]
         hasSemanticAction == production[3]
         rhs == PoppedEntries(stack, production[2])
         popped == SubSeq(stack, 1, Len(stack) - 2 * production[2])
         semanticValueArgs ==
           [k \in 1..production[2] |->
              IF "semanticValue" \in DOMAIN rhs[k]
              THEN rhs[k].semanticValue ELSE Null]
         captureLocations == options.captureLocations
         locationArgs ==
           [k \in 1..production[2] |->
              IF "loc" \in DOMAIN rhs[k] THEN rhs[k].loc ELSE Null]
         m == [inputs |-> inputs, outputs |-> outputs, parts |-> parts,
               value |-> yyvalue]
         newValue == ActionValue(productionNumber, semanticValueArgs, m)
         newLoc == yyloc(captureLocations, locationArgs[1],
                         locationArgs[production[2]])
         reduceStackEntry ==
           IF hasSemanticAction
           THEN IF captureLocations
                THEN [symbol |-> production[1], semanticValue |-> newValue,
                      loc |-> newLoc]
                ELSE [symbol |-> production[1], semanticValue |-> newValue]
           ELSE [symbol |-> production[1]]
         nextState == Top(popped).state
         pushed == popped \o
                   <<reduceStackEntry,
                     StateEntry(table[nextState + 1][production[1]].n)>>
     IN /\ stack' = pushed
        /\ IF hasSemanticAction
           THEN /\ yyvalue' = newValue
                /\ yylocation' = newLoc
                /\ inputs' = ActionInputs(productionNumber, semanticValueArgs, m)
                /\ outputs' = ActionOutputs(productionNumber, semanticValueArgs, m)
                /\ parts' = ActionParts(productionNumber, semanticValueArgs, m)
           ELSE UNCHANGED <<yyvalue, yylocation, inputs, outputs, parts>>
        /\ IF LoopContinues(tokenizer, pushed)
           THEN pc' = "parsing" /\ returned' = returned
           ELSE pc' = "returned" /\ returned' = Null
  /\ UNCHANGED <<tokenizer, token, shiftedToken, options, globalOptions,
                 thrown, calls, prev, held, cli>>

\* Accept: pop the start symbol; return its semantic value when the stack is
\* back to the single state 0 and the tokenizer is past the end of the text.
Accept ==
  /\ pc = "parsing"
  /\ HasEntry
  /\ CurrentEntry.a = "acc"
  /\ LET parsed == stack[Len(stack) - 1]
         popped == SubSeq(stack, 1, Len(stack) - 2)
     IN /\ stack' = popped
        /\ options' = globalOptions
        /\ IF \/ Len(popped) # 1
              \/ popped[1] # StateEntry(0)
              \/ hasMoreTokens(tokenizer)
           THEN /\ pc' = "threw"
                /\ thrown' = unexpectedToken(tokenizer, token)
                /\ returned' = returned
                /\ held' = held
           ELSE /\ pc' = "returned"
                /\ thrown' = thrown
                /\ returned' = IF "semanticValue" \in DOMAIN parsed
                               THEN parsed.semanticValue
                               ELSE [true |-> TRUE]
                /\ held' = IF IsNull(held) /\ "semanticValue" \in DOMAIN parsed
                           THEN parsed.semanticValue ELSE held
  /\ UNCHANGED <<tokenizer, token, shiftedToken, yyvalue, yylocation,
                 globalOptions, inputs, outputs, parts, calls, prev, cli>>

(***************************************************************************)
(* The texts given to parse.  A chip is described by its name and its      *)
(* sections; its text is written one section per line.                     *)
(***************************************************************************)
\* Concatenation of a sequence of sequences (by halves, to keep the
\* recursion shallow).
RECURSIVE Flatten(_)
Flatten(ss) ==
  IF ss = <<>> THEN <<>>
  ELSE IF Len(ss) = 1 THEN ss[1]
  ELSE LET h == Len(ss) \div 2
       IN Flatten(SubSeq(ss, 1, h)) \o Flatten(SubSeq(ss, h + 1, Len(ss)))

\* The items of a sequence with the items of sep between each two of them.
Join(ss, sep) ==
  IF Len(ss) <= 1 THEN ss
  ELSE Flatten([k \in 1..Len(ss) |->
                  IF k = 1 THEN <<ss[k]>> ELSE sep \o <<ss[k]>>])

nFoo == <<"F","o","o">>
nA == <<"a">>
nB == <<"b">>
nW == <<"w">>
nOut == <<"o","u","t">>
nIn == <<"i","n">>
nNot == <<"N","o","t">>
nAnd == <<"A","n","d">>
nOr == <<"O","r">>
nSel == <<"s","e","l">>

InSection(names) == [kind |-> "IN", names |-> names]
OutSection(names) == [kind |-> "OUT", names |-> names]
PartsSection(chipCalls) == [kind |-> "PARTS", calls |-> chipCalls]
Call(name, arguments) == [name |-> name, arguments |-> arguments]
Arg(name, value) == [name |-> name, value |-> value]

\* The lexemes of an argument list, a part and a section.
ArgLexemes(arg) == <<arg.name, <<"=">>, arg.value>>

CallLexemes(call) ==
  <<call.name, <<"(">>>> \o
  Flatten(Join([k \in 1..Len(call.arguments) |-> ArgLexemes(call.arguments[k])],
               << <<<<",">>, <<" ">>>> >>)) \o
  <<<<")">>, <<";">>>>

SectionLexemes(sec) ==
  IF sec.kind = "PARTS"
  THEN <<kwPARTS, <<":">>>> \o
       Flatten([k \in 1..Len(sec.calls) |-> <<<<NL>>>> \o CallLexemes(sec.calls[k])])
  ELSE <<(IF sec.kind = "IN" THEN kwIN ELSE kwOUT), <<" ">>>> \o
       Flatten(Join([k \in 1..Len(sec.names) |-> <<sec.names[k]>>],
                    << <<<<",">>, <<" ">>>> >>)) \o
       <<<<";">>>>

\* CHIP name {, then one section per line, then }.
ChipLexemes(chip) ==
  <<kwCHIP, <<" ">>, chip.name, <<" ">>, <<"{">>, <<NL>>>> \o
  Flatten([k \in 1..Len(chip.sections) |->
             SectionLexemes(chip.sections[k]) \o <<<<NL>>>>]) \o
  <<<<"}">>>>

ChipText(chip) == Flatten(ChipLexemes(chip))

\* The AST the chip's declarations describe: the names of its IN sections,
\* of its OUT sections and the calls of its PARTS sections, in source order.
DeclaredNames(chip, kind) ==
  Flatten([k \in 1..Len(chip.sections) |->
             IF chip.sections[k].kind = kind
             THEN chip.sections[k].names ELSE <<>>])

DeclaredCall(call) ==
  [type |-> "ChipCall", name |-> call.name,
   arguments |-> [k \in 1..Len(call.arguments) |->
                    [type |-> "Argument", name |-> call.arguments[k].name,
                     value |-> call.arguments[k].value]]]

DeclaredParts(chip) ==
  Flatten([k \in 1..Len(chip.sections) |->
             IF chip.sections[k].kind = "PARTS"
             THEN [j \in 1..Len(chip.sections[k].calls) |->
                     DeclaredCall(chip.sections[k].calls[j])]
             ELSE <<>>])

DeclaredAST(chip) ==
  [type |-> "Chip", name |-> chip.name,
   inputs |-> DeclaredNames(chip, "IN"),
   outputs |-> DeclaredNames(chip, "OUT"),
   parts |-> DeclaredParts(chip)]

\* The sections the generated chips are made of.
SectionPool ==
  {InSection(<<nA, nB>>),
   OutSection(<<nOut>>),
   PartsSection(<<Call(nAnd, <<Arg(nA, nA), Arg(nB, nB), Arg(nOut, nW)>>),
                  Call(nNot, <<Arg(nIn, nW), Arg(nOut, nOut)>>)>>)}

\* The sequences over S of length n.
SeqsOfLength(S, n) == [1..n -> S]

\* The chips named Foo with up to MaxSections sections of the pool, in any
\* order and with repetitions.
Chips ==
  {[name |-> nFoo, sections |-> ss] :
     ss \in UNION {SeqsOfLength(SectionPool, n) : n \in 0..MaxSections}}

\* A chip with one IN, one OUT and one PARTS section, its names as given.
SlotChip(chipName, pinName, outName, gateName, argName, argValue) ==
  [name |-> chipName,
   sections |-> <<InSection(<<nA, pinName>>),
                  OutSection(<<outName>>),
                  PartsSection(<<Call(gateName, <<Arg(argName, argValue),
                                                  Arg(nOut, nOut)>>)>>)>>]

CoreChip == SlotChip(nFoo, nB, nOut, nNot, nIn, nA)

Keywords == {kwCHIP, kwIN, kwOUT, kwPARTS}

\* The chips that differ from CoreChip by a keyword in the place of one name.
KeywordAsChipName == {SlotChip(k, nB, nOut, nNot, nIn, nA) : k \in Keywords}
KeywordAsInPin == {SlotChip(nFoo, k, nOut, nNot, nIn, nA) : k \in Keywords}
KeywordAsOutPin == {SlotChip(nFoo, nB, k, nNot, nIn, nA) : k \in Keywords}
KeywordAsGate == {SlotChip(nFoo, nB, nOut, k, nIn, nA) : k \in Keywords}
KeywordAsArgName == {SlotChip(nFoo, nB, nOut, nNot, k, nA) : k \in Keywords}
KeywordAsArgValue == {SlotChip(nFoo, nB, nOut, nNot, nIn, k) : k \in Keywords}

KeywordChips ==
  KeywordAsChipName \cup KeywordAsInPin \cup KeywordAsOutPin \cup
  KeywordAsGate \cup KeywordAsArgName \cup KeywordAsArgValue

\* Pin declarations with a size, `b[8]`, in the IN and in the OUT section.
SizedPin == <<"b","[","8","]">>
SizedPinChips ==
  {SlotChip(nFoo, SizedPin, nOut, nNot, nIn, nA),
   SlotChip(nFoo, nB, SizedPin, nNot, nIn, nA)}

\* Values of a part argument: a plain name, a bit, a range, the literals.
BitRef == <<"a","[","0","]">>
RangeRef == <<"a","[","0",".",".","7","]">>
litTrue == <<"t","r","u","e">>
litFalse == <<"f","a","l","s","e">>
ArgValues == {nA, BitRef, RangeRef, litTrue, litFalse}
ArgValueChip(v) == SlotChip(nFoo, nB, nOut, nNot, nIn, v)

\* Texts that end early: the lexemes of CoreChip up to the n-th, n < all.
CoreLexemes == ChipLexemes(CoreChip)
TruncatedTexts ==
  {Flatten(SubSeq(CoreLexemes, 1, n)) : n \in 0..(Len(CoreLexemes) - 1)}

\* Texts with one stray lexeme, between spaces, before the n-th lexeme of
\* CoreChip.
Strays == {kwIN, <<"}">>, <<"@">>}
StrayText(n, stray) ==
  Flatten(SubSeq(CoreLexemes, 1, n - 1) \o <<<<" ">>, stray, <<" ">>>> \o
          SubSeq(CoreLexemes, n, Len(CoreLexemes)))
StrayTexts ==
  {StrayText(n, stray) : n \in 1..Len(CoreLexemes), stray \in Strays}

\* Texts that lack the n-th lexeme of CoreChip.
DroppedTexts ==
  {Flatten(SubSeq(CoreLexemes, 1, n - 1) \o
           SubSeq(CoreLexemes, n + 1, Len(CoreLexemes))) :
     n \in 1..Len(CoreLexemes)}

\* CHIP Foo { IN a IN b; }
FooInInText ==
  <<"C","H","I","P"," ","F","o","o"," ","{"," ","I","N"," ","a"," ",
    "I","N"," ","b",";"," ","}">>

\* CHIP Foo {
FooOpenText == <<"C","H","I","P"," ","F","o","o"," ","{">>

\* CHIP Foo { }
FooEmptyText == <<"C","H","I","P"," ","F","o","o"," ","{"," ","}">>

(***************************************************************************)
(* The Mux chip of the repository.                                         *)
(***************************************************************************)
\* Lines 1 .. 10: the comments above the chip.
MuxComments ==
    <<"/","/"," ","T","h","i","s"," ","f","i","l","e"," ","i","s"," ","p","a","r","t"," ","o","f"," ","w","w","w",".","n","a","n","d","2","t","e","t","r","i","s",".","o","r","g",NL>> \o
    <<"/","/"," ","a","n","d"," ","t","h","e"," ","b","o","o","k"," ","\"","T","h","e"," ","E","l","e","m","e","n","t","s"," ","o","f"," ","C","o","m","p","u","t","i","n","g"," ","S","y","s","t","e","m","s","\"",NL>> \o
    <<"/","/"," ","b","y"," ","N","i","s","a","n"," ","a","n","d"," ","S","c","h","o","c","k","e","n",","," ","M","I","T"," ","P","r","e","s","s",".",NL>> \o
    <<NL>> \o
    <<"/","*","*",NL>> \o
    <<" ","*"," ","M","u","l","t","i","p","l","e","x","o","r",":",NL>> \o
    <<" ","*"," ","o","u","t"," ","="," ","a"," ","i","f"," ","s","e","l"," ","=","="," ","0",NL>> \o
    <<" ","*"," "," "," "," "," "," "," ","b"," ","o","t","h","e","r","w","i","s","e",NL>> \o
    <<" ","*","/",NL>> \o
    <<NL>>

\* Lines 11 .. 16: the chip header, its IN and OUT sections, PARTS:.
MuxHeader ==
    <<"C","H","I","P"," ","M","u","x"," ","{",NL>> \o
    <<" "," ","I","N"," ","a",","," ","b",","," ","s","e","l",";",NL>> \o
    <<" "," ","O","U","T"," ","o","u","t",";",NL>> \o
    <<NL>> \o
    <<" "," ","P","A","R","T","S",":",NL>> \o
    <<NL>>

\* Line 17.
MuxNot ==
    <<" "," ","N","o","t","(","i","n","=","s","e","l",","," ","o","u","t","=","n","e","l",")",";",NL>>

\* Line 18.
MuxAndA ==
    <<" "," ","A","n","d","(","a","=","a",","," ","b","=","n","e","l",","," ","o","u","t","=","A",")",";",NL>>

\* Mutant of MuxAndB: the second And reads nel instead of sel.
MuxAndBMiswired ==
    <<" "," ","A","n","d","(","a","=","b",","," ","b","=","n","e","l",","," ","o","u","t","=","B",")",";",NL>>

\* Line 19.
MuxAndB ==
    <<" "," ","A","n","d","(","a","=","b",","," ","b","=","s","e","l",","," ","o","u","t","=","B",")",";",NL>>

\* Line 20.
MuxOr ==
    <<" "," ","O","r","(","a","=","A",","," ","b","=","B",","," ","o","u","t","=","o","u","t",")",";",NL>>

\* Lines 21 and 22.
MuxClose ==
    <<"}",NL>> \o
    <<NL>>

\* Mutant of MuxText: the Or part comes first in the PARTS section.
MuxTextOrFirst ==
  MuxComments \o MuxHeader \o MuxOr \o MuxNot \o MuxAndA \o MuxAndB \o MuxClose

\* The text of the Mux chip, character by character.
MuxText ==
  MuxComments \o MuxHeader \o MuxNot \o MuxAndA \o MuxAndB \o MuxOr \o MuxClose

\* The chip the Mux text declares.
nMux == <<"M","u","x">>
nNel == <<"n","e","l">>
nCapA == <<"A">>
nCapB == <<"B">>
MuxChip ==
  [name |-> nMux,
   sections |->
     <<InSection(<<nA, nB, nSel>>),
       OutSection(<<nOut>>),
       PartsSection(
         <<Call(nNot, <<Arg(nIn, nSel), Arg(nOut, nNel)>>),
           Call(nAnd, <<Arg(nA, nA), Arg(nB, nNel), Arg(nOut, nCapA)>>),
           Call(nAnd, <<Arg(nA, nB), Arg(nB, nSel), Arg(nOut, nCapB)>>),
           Call(nOr, <<Arg(nA, nCapA), Arg(nB, nCapB), Arg(nOut, nOut)>>)>>)>>]

\* A second chip, sharing no name with CoreChip.
nBar == <<"B","a","r">>
nX == <<"x">>
nY == <<"y">>
nZ == <<"z">>
OtherChip ==
  [name |-> nBar,
   sections |-> <<InSection(<<nX, nY>>),
                  OutSection(<<nZ>>),
                  PartsSection(<<Call(nOr, <<Arg(nA, nX), Arg(nB, nY),
                                             Arg(nOut, nZ)>>)>>)>>]

\* What the lex rules 0, 1 and 2 skip: a line comment with the end of its
\* line, block comments on one line and over two lines, spaces, a tab, a
\* newline.
Fillers ==
  {<<"/","/"," ","c",";",NL>>,
   <<"/","*"," ","c",";"," ","*","/">>,
   <<"/","*","*",NL," ","*"," ","}",NL," ","*","/">>,
   <<" "," ">>, <<TAB>>, <<NL>>}

\* CoreChip's text with filler put between its lexemes n - 1 and n.
FilledText(n, filler) ==
  Flatten(SubSeq(CoreLexemes, 1, n - 1) \o <<filler>> \o
          SubSeq(CoreLexemes, n, Len(CoreLexemes)))

FilledTexts ==
  {FilledText(n, filler) : n \in 2..Len(CoreLexemes), filler \in Fillers}

\* CoreChip's text with a block comment after CHIP and another before `}`.
TwiceCommentedText ==
  Flatten(SubSeq(CoreLexemes, 1, 1) \o <<<<"/","*"," ","a"," ","*","/">>>> \o
          SubSeq(CoreLexemes, 2, Len(CoreLexemes) - 1) \o
          <<<<"/","*"," ","b"," ","*","/">>>> \o
          SubSeq(CoreLexemes, Len(CoreLexemes), Len(CoreLexemes)))

\* Names that begin with the letters of a keyword and go on.
KeywordPrefixedNames ==
  {<<"I","N","C">>, <<"O","U","T","a">>, <<"C","H","I","P","S">>,
   <<"P","A","R","T","S","x">>}

\* The chips that differ from CoreChip by such a name in the place of a pin
\* name, of the chip name, of a gate name or of an argument value.
KeywordPrefixedChips ==
  {SlotChip(nFoo, n, nOut, nNot, nIn, nA) : n \in KeywordPrefixedNames} \cup
  {SlotChip(n, nB, nOut, nNot, nIn, nA) : n \in KeywordPrefixedNames} \cup
  {SlotChip(nFoo, nB, nOut, n, nIn, nA) : n \in KeywordPrefixedNames} \cup
  {SlotChip(nFoo, nB, nOut, nNot, nIn, n) : n \in KeywordPrefixedNames}

\* CoreChip's text with something more on the line after its closing `}`: a
\* second chip definition, or one token.
TrailingTexts ==
  {ChipText(CoreChip) \o <<NL>> \o t :
     t \in {ChipText(OtherChip), kwCHIP, nFoo, <<"}">>, <<";">>}}

\* CoreChip's text with only a comment or whitespace after its closing `}`.
TrailedTexts == {ChipText(CoreChip) \o filler : filler \in Fillers}

\* The texts of the first parse call on a freshly loaded module.
Texts ==
  {ChipText(c) : c \in Chips \cup KeywordChips \cup SizedPinChips} \cup
  {ChipText(ArgValueChip(v)) : v \in ArgValues} \cup
  TruncatedTexts \cup StrayTexts \cup DroppedTexts \cup
  {FooInInText, FooEmptyText, MuxText, ChipText(OtherChip)} \cup
  FilledTexts \cup {TwiceCommentedText} \cup
  {ChipText(c) : c \in KeywordPrefixedChips} \cup
  TrailingTexts \cup TrailedTexts

\* The texts of the calls after the first: two chips that parse and a text
\* that fails after its IN section has begun.
LaterTexts == {ChipText(CoreChip), ChipText(OtherChip), FooInInText}

TextsOfCall(n) == IF n = 0 THEN Texts ELSE LaterTexts

\* The texts that are parsed with and without per-call options: chips that
\* parse, a text with a token out of place, the texts with a character no lex
\* rule matches, and texts that end early.
OptionTexts ==
  LaterTexts \cup {StrayText(n, <<"@">>) : n \in 1..Len(CoreLexemes)} \cup
  {FooOpenText, <<>>}

ParseOptionsOf(string) ==
  IF string \in OptionTexts THEN ParseOptionsChoices ELSE {Null}

(***************************************************************************)
(* Evaluation of a parsed chip over the primitive gates Not, And, Or and   *)
(* Nand: the parts are walked in source order; each part reads its input   *)
(* pins from the nets, and its output pin is copied to the net its output  *)
(* argument names.  A net never written reads as 0.                        *)
(***************************************************************************)
\* The input pins of a primitive gate; every other pin is an output.
GateInputPins(gate) ==
  IF gate = nNot THEN {nIn} ELSE {nA, nB}

\* The value of the pin `out` of a primitive gate, from its input pins.
GateOut(gate, pins) ==
  CASE gate = nNot -> 1 - pins[nIn]
    [] gate = nAnd -> IF pins[nA] = 1 /\ pins[nB] = 1 THEN 1 ELSE 0
    [] gate = nOr -> IF pins[nA] = 1 \/ pins[nB] = 1 THEN 1 ELSE 0
    [] OTHER -> IF pins[nA] = 1 /\ pins[nB] = 1 THEN 0 ELSE 1   \* Nand

ReadNet(nets, name) == IF name \in DOMAIN nets THEN nets[name] ELSE 0

\* The nets after one part has been evaluated.
EvaluatePart(part, nets) ==
  LET args == part.arguments
      ins == {k \in 1..Len(args) : args[k].name \in GateInputPins(part.name)}
      pins == [n \in GateInputPins(part.name) |->
                 IF \E k \in ins : args[k].name = n
                 THEN ReadNet(nets, args[CHOOSE k \in ins : args[k].name = n].value)
                 ELSE 0]
      out == GateOut(part.name, pins)
      written == {args[k].value : k \in (1..Len(args)) \ ins}
  IN [n \in DOMAIN nets \cup written |->
        IF n \in written THEN out ELSE nets[n]]

\* The nets after the parts have been evaluated in order.
RECURSIVE EvaluateParts(_, _)
EvaluateParts(chipParts, nets) ==
  IF chipParts = <<>> THEN nets
  ELSE EvaluateParts(Tail(chipParts), EvaluatePart(Head(chipParts), nets))

\* evaluate() of the chip of an AST with the given values on its input pins.
Evaluate(ast, pinValues) == EvaluateParts(ast.parts, pinValues)

(***************************************************************************)
(* The command line tool, src/bin/hdl-js-cli.js.  What it writes to the    *)
(* console is the sequence cli.out of printed items; an absent string     *)
(* option and an empty one are both the empty sequence (both are falsy).   *)
(***************************************************************************)
\* The gates of the built-in gates directory.
BuiltInGates == {nAnd, nOr, nNot}

\* The files of the working directory: the Mux chip, a file with a token out
\* of place, a file that ends early.
pathMux == <<"M","u","x",".","h","d","l">>
pathBad == <<"B","a","d",".","h","d","l">>
pathCut == <<"C","u","t",".","h","d","l">>
Files == (pathMux :> MuxText) @@ (pathBad :> FooInInText) @@ (pathCut :> FooOpenText)

\* A string that is neither undefined nor empty.
Truthy(string) == string # <<>>

\* FORMAT_VALUES
FORMAT_VALUES ==
  [f \in {"bin", "hex", "dec"} |->
     CASE f = "bin" -> [radix |-> 2, pad |-> 16]
       [] f = "hex" -> [radix |-> 16, pad |-> 4]
       [] f = "dec" -> [radix |-> 10, pad |-> 0]]

\* The values of a row of the data literal: a number or a string of digits.
Num(v) == [type |-> "number", v |-> v]
Str(digits) == [type |-> "string", v |-> digits]

\* The --exec-on-data option: absent, or the rows of the literal.
NoData == [given |-> FALSE, rows |-> <<>>]
Data(rows) == [given |-> TRUE, rows |-> rows]

\* Rows whose out agrees with the And of a and b.
DataAgree ==
  << (nA :> Num(1)) @@ (nB :> Num(1)) @@ (nOut :> Num(1)),
     (nA :> Str(<<"0","1">>)) @@ (nB :> Num(0)) >>

\* Rows 0 and 2 expect an out that And does not give.
DataConflict ==
  << (nA :> Num(1)) @@ (nB :> Num(1)) @@ (nOut :> Num(0)),
     (nA :> Num(0)) @@ (nB :> Num(1)),
     (nA :> Num(65537)) @@ (nB :> Str(<<"1">>)) @@ (nOut :> Num(0)) >>

\* The command lines the tool is started with.
Argvs ==
  [gate : {<<>>, nAnd, nNot, nFoo, pathMux, pathBad, pathCut},
   parse : BOOLEAN, list : BOOLEAN, describe : BOOLEAN, run : BOOLEAN,
   execOnData : {NoData, Data(DataAgree), Data(DataConflict), Data(<<>>)},
   format : {"none", "hex"},
   clockRate : {0, 2}]

\* Number.parseInt(digits, radix) of a non-empty string of decimal digits
\* that are digits of the radix.
RECURSIVE ParseInt(_, _)
ParseInt(digits, radix) ==
  LET ch == digits[Len(digits)]
      value == CASE ch = "0" -> 0 [] ch = "1" -> 1 [] ch = "2" -> 2
                 [] ch = "3" -> 3 [] ch = "4" -> 4 [] ch = "5" -> 5
                 [] ch = "6" -> 6 [] ch = "7" -> 7 [] ch = "8" -> 8
                 [] ch = "9" -> 9
  IN IF digits = <<>> THEN 0
     ELSE ParseInt(SubSeq(digits, 1, Len(digits) - 1), radix) * radix + value

\* int16 of util/numbers: the reduction of a number to 16 bits, signed.
int16(v) ==
  LET m == v % 65536 IN IF m >= 32768 THEN m - 65536 ELSE m

processInputValue(value, formatRadix) ==
  IF value.type = "string" THEN int16(ParseInt(value.v, formatRadix))
  ELSE IF value.type = "number" THEN int16(value.v)
  ELSE value

parseInputData(data, formatRadix) ==
  [k \in 1..Len(data) |->
     [prop \in DOMAIN data[k] |-> processInputValue(data[k][prop], formatRadix)]]

\* gateInstance.execOnData(data) of a built-in gate: every row is evaluated,
\* the result row holds the gate's input and output pins, and a row that gives
\* an out other than the one evaluated is a conflict.
ExecRow(gate, row) ==
  LET pins == [n \in GateInputPins(gate) |->
                 IF n \in DOMAIN row THEN row[n] ELSE 0]
  IN pins @@ (nOut :> GateOut(gate, pins))

ExecOnData(gate, data) ==
  LET result == [k \in 1..Len(data) |-> ExecRow(gate, data[k])]
      conflicting(k) == nOut \in DOMAIN data[k] /\ data[k][nOut] # result[k][nOut]
      RowsFrom[k \in 1..(Len(data) + 1)] ==
        IF k > Len(data) THEN <<>>
        ELSE (IF conflicting(k)
              THEN <<[row |-> k - 1,
                      pins |-> (nOut :> [expected |-> data[k][nOut],
                                         actual |-> result[k][nOut]])]>>
              ELSE <<>>) \o RowsFrom[k + 1]
  IN [result |-> result, conflicts |-> RowsFrom[1]]

\* spec.truthTable of a built-in gate: its rows over all values of its inputs.
TruthTable(gate) ==
  IF gate = nNot
  THEN [k \in 1..2 |-> ExecRow(gate, (nIn :> k - 1))]
  ELSE [k \in 1..4 |->
          ExecRow(gate, (nA :> (k - 1) \div 2) @@ (nB :> (k - 1) % 2))]

\* The items the tool prints: a line of fixed text, and a line or a block
\* that shows a value, kept under the name of its line.
Line(tag) == [tag |-> tag]
Item(tag, value) == [tag |-> tag] @@ (tag :> value)

\* GateClass.printTruthTable as printTable calls it: by is the function that
\* made printTable, conflictingRows the rows its transformValue marks.
PrintedTable(by, rows, format, conflictingRows) ==
  [tag |-> "table", by |-> by, table |-> rows,
   formatRadix |-> FORMAT_VALUES[format].radix,
   formatStringLengh |-> FORMAT_VALUES[format].pad,
   conflictingRows |-> conflictingRows]

\* Mutant of listBuiltInGates: nothing is listed.
listNoBuiltInGates == <<>>

\* listBuiltInGates()
listBuiltInGates == <<Item("Built-in gates", BuiltInGates)>>

\* What loadBuiltInGate(name) prints before process.exit(1) when require
\* fails.
loadBuiltInGateFails(name) == <<Item("Unknown gate", name)>> \o listBuiltInGates

\* The format in force: `format = 'bin'` when the option is absent.
FormatOf(argv) == IF argv.format = "none" THEN "bin" ELSE argv.format

\* Mutant of runSlicePrints: the row is printed without its out pin.
runSlicePrintsWithoutOut(by, data, index, format) ==
  LET slice1 == IF index + 1 \in 1..Len(data)
                THEN <<[p \in DOMAIN data[index + 1] \ {nOut} |->
                          data[index + 1][p]]>>
                ELSE <<>>
  IN <<PrintedTable(by, slice1, format, <<>>)>>

\* runSlice(data, index, action): what it prints, and the timer it sets.
runSlicePrints(by, data, index, format) ==
  LET \* data.slice(index, index + 1)
      slice1 == IF index + 1 \in 1..Len(data) THEN <<data[index + 1]>> ELSE <<>>
  IN <<PrintedTable(by, slice1, format, <<>>)>>

\* Mutant of runSliceTimer: the index is not reset at the last row.
runSliceTimerNoReset(by, data, index) ==
  [by |-> by, data |-> data, index |-> index + 1]

runSliceTimer(by, data, index) ==
  [by |-> by, data |-> data,
   index |-> (IF index = Len(data) - 1 THEN -1 ELSE index) + 1]

\* Mutant of ExecOnDataPrints: the table is not printed when rows conflict.
ExecOnDataPrintsConflictsOnly(r, format) ==
  IF Len(r.conflicts) # 0
  THEN <<Item("Found conflicts", Len(r.conflicts))>> \o
       [k \in 1..Len(r.conflicts) |->
          Item("conflict", [row |-> r.conflicts[k].row,
                            pinNames |-> DOMAIN r.conflicts[k].pins])]
  ELSE <<Line("Truth table for data:"),
         PrintedTable("exec", r.result, format, <<>>)>>

\* What main prints from the result r of execOnData: the conflicts or the
\* title, then the table, its conflicting rows marked.
ExecOnDataPrints(r, format) ==
  (IF Len(r.conflicts) # 0
   THEN <<Item("Found conflicts", Len(r.conflicts))>> \o
        [k \in 1..Len(r.conflicts) |->
           Item("conflict", [row |-> r.conflicts[k].row,
                             pinNames |-> DOMAIN r.conflicts[k].pins])]
   ELSE <<Line("Truth table for data:")>>) \o
  <<PrintedTable("exec", r.result, format,
                 [k \in 1..Len(r.conflicts) |->
                    [row |-> r.conflicts[k].row, pins |-> r.conflicts[k].pins]])>>

\* The process after process.exit(code).
Exited(c, prints, code) ==
  [c EXCEPT !.pc = "exited", !.out = @ \o prints, !.exitCode = code]

\* main(), to the end of the --list section.
CliMain(argv) ==
  /\ cli = CliOff
  /\ pc = "idle"
  /\ cli' = [pc |-> "describe",
             argv |-> argv,
             rate |-> argv.clockRate,
             hdlFile |-> IF Truthy(argv.gate) /\ argv.gate \in DOMAIN Files
                         THEN Files[argv.gate] ELSE <<>>,
             out |-> (IF Truthy(argv.gate) /\ ~argv.describe /\ ~argv.execOnData.given
                      THEN <<Item("hint --describe", argv.gate)>> ELSE <<>>) \o
                     (IF argv.describe /\ ~Truthy(argv.gate)
                      THEN <<Line("hint --gate")>> ELSE <<>>) \o
                     (IF argv.list THEN listBuiltInGates ELSE <<>>),
             timers |-> <<>>,
             shown |-> Null,
             execOnDataCalls |-> 0,
             ticks |-> 0,
             exitCode |-> -1]
  /\ UNCHANGED <<tokenizer, stack, token, shiftedToken, yyvalue, yylocation,
                 options, globalOptions, inputs, outputs, parts, pc, returned,
                 thrown, calls, prev, held>>

\* main(), the --describe section, with describeBuiltInGate.
CliDescribe ==
  /\ cli.pc = "describe"
  /\ LET argv == cli.argv
         gate == argv.gate
         format == FormatOf(argv)
         GateSpec(g) ==
           Item("gate specification",
                [gate |-> g, inputPins |-> GateInputPins(g), outputPins |-> {nOut}])
     IN cli' =
          IF ~(Truthy(gate) /\ argv.describe)
          THEN [cli EXCEPT !.pc = "exec"]
          ELSE IF Truthy(cli.hdlFile)
          THEN Exited(cli, <<Line("--describe works only with built-in gates")>>, 1)
          ELSE IF gate \notin BuiltInGates
          THEN Exited(cli, loadBuiltInGateFails(gate), 1)
          ELSE IF argv.run
          THEN [cli EXCEPT
                  !.pc = "exec",
                  !.out = @ \o <<GateSpec(gate), Line("Current results for pins:")>> \o
                          runSlicePrints("describe", TruthTable(gate), 0, format),
                  !.shown = runSlicePrints("describe", TruthTable(gate), 0,
                                           format)[1],
                  !.timers = Append(@, runSliceTimer("describe", TruthTable(gate), 0))]
          ELSE [cli EXCEPT
                  !.pc = "exec",
                  !.out = @ \o <<GateSpec(gate), Line("Truth table:"),
                                 PrintedTable("describe", TruthTable(gate),
                                              format, <<>>)>>]
  /\ UNCHANGED <<tokenizer, stack, token, shiftedToken, yyvalue, yylocation,
                 options, globalOptions, inputs, outputs, parts, pc, returned,
                 thrown, calls, prev, held>>

\* main(), the --exec-on-data section.
CliExecOnData ==
  /\ cli.pc = "exec"
  /\ LET argv == cli.argv
         gate == argv.gate
         format == FormatOf(argv)
         data == parseInputData(argv.execOnData.rows, FORMAT_VALUES[format].radix)
     IN cli' =
          IF ~argv.execOnData.given
          THEN [cli EXCEPT !.pc = "parse"]
          ELSE IF ~Truthy(gate)
          THEN [cli EXCEPT !.pc = "loop",
                           !.out = Append(@, Line("hint --gate for data"))]
          ELSE IF gate \notin BuiltInGates
          THEN Exited(cli, loadBuiltInGateFails(gate), 1)
          ELSE IF argv.run
          THEN [cli EXCEPT
                  !.pc = "loop",
                  !.out = @ \o <<Line("Current results for pins:")>> \o
                          runSlicePrints("exec", data, 0, format),
                  !.shown = runSlicePrints("exec", data, 0, format)[1],
                  !.timers = Append(@, runSliceTimer("exec", data, 0))]
          ELSE [cli EXCEPT
                  !.pc = "parse",
                  !.execOnDataCalls = @ + 1,
                  !.out = @ \o ExecOnDataPrints(ExecOnData(gate, data), format)]
  /\ UNCHANGED <<tokenizer, stack, token, shiftedToken, yyvalue, yylocation,
                 options, globalOptions, inputs, outputs, parts, pc, returned,
                 thrown, calls, prev, held>>

\* main(), the --parse section: hdl.parse(hdlFile) is called.
CliCallParse ==
  /\ cli.pc = "parse"
  /\ cli.argv.parse
  /\ Truthy(cli.hdlFile)
  /\ pc = "idle"
  /\ ParseBegin(cli.hdlFile, Null)

\* hdl.parse returned: the AST is printed and main returns.
CliParsed ==
  /\ cli.pc = "parse"
  /\ pc = "returned"
  /\ cli' = [cli EXCEPT !.pc = "loop", !.out = Append(@, Item("Parsed:", returned))]
  /\ UNCHANGED <<tokenizer, stack, token, shiftedToken, yyvalue, yylocation,
                 options, globalOptions, inputs, outputs, parts, pc, returned,
                 thrown, calls, prev, held>>

\* hdl.parse threw: nothing in main catches the SyntaxError, and a process
\* whose exception nothing catches ends with status 1.
CliParseThrew ==
  /\ cli.pc = "parse"
  /\ pc = "threw"
  /\ cli' = Exited(cli, <<Item("uncaught exception", thrown)>>, 1)
  /\ UNCHANGED <<tokenizer, stack, token, shiftedToken, yyvalue, yylocation,
                 options, globalOptions, inputs, outputs, parts, pc, returned,
                 thrown, calls, prev, held>>

\* There is nothing to parse: main ends.
CliNoParse ==
  /\ cli.pc = "parse"
  /\ ~(cli.argv.parse /\ Truthy(cli.hdlFile))
  /\ cli' = [cli EXCEPT !.pc = "loop"]
  /\ UNCHANGED <<tokenizer, stack, token, shiftedToken, yyvalue, yylocation,
                 options, globalOptions, inputs, outputs, parts, pc, returned,
                 thrown, calls, prev, held>>

\* After main the oldest timer of runSlice fires: the last row is cleared and
\* the next slice is run.  shown is the table the callback prints; the output
\* is recorded for the first MaxTicks callbacks, and the index of a run over
\* an empty list, which grows without bound and selects no row, is counted up
\* to MaxTicks.
CliTimer ==
  /\ cli.pc = "loop"
  /\ cli.timers # <<>>
  /\ LET timer == Head(cli.timers)
         prints == runSlicePrints(timer.by, timer.data, timer.index,
                                  FormatOf(cli.argv))
     IN cli' = [cli EXCEPT
                  !.ticks = IF @ < MaxTicks THEN @ + 1 ELSE @,
                  !.out = IF cli.ticks < MaxTicks
                          THEN @ \o <<Line("clear 6 lines")>> \o prints
                          ELSE @,
                  !.shown = prints[1],
                  !.timers = Append(Tail(@),
                                    IF timer.data = <<>> /\ timer.index >= MaxTicks
                                    THEN timer
                                    ELSE runSliceTimer(timer.by, timer.data,
                                                       timer.index))]
  /\ UNCHANGED <<tokenizer, stack, token, shiftedToken, yyvalue, yylocation,
                 options, globalOptions, inputs, outputs, parts, pc, returned,
                 thrown, calls, prev, held>>

\* After main, with no timer left, the process ends with status 0.
CliExit ==
  /\ cli.pc = "loop"
  /\ cli.timers = <<>>
  /\ cli' = [cli EXCEPT !.pc = "exited", !.exitCode = 0]
  /\ UNCHANGED <<tokenizer, stack, token, shiftedToken, yyvalue, yylocation,
                 options, globalOptions, inputs, outputs, parts, pc, returned,
                 thrown, calls, prev, held>>

Next ==
  \/ \E string \in TextsOfCall(calls), parseOptions \in ParseOptionsChoices :
       /\ cli = CliOff
       /\ parseOptions \in ParseOptionsOf(string)
       /\ ParseBegin(string, parseOptions)
  \/ Shift
  \/ Reduce
  \/ Accept
  \/ Reject
  \/ \E argv \in Argvs : CliMain(argv)
  \/ CliDescribe
  \/ CliExecOnData
  \/ CliCallParse
  \/ CliParsed
  \/ CliParseThrew
  \/ CliNoParse
  \/ CliTimer
  \/ CliExit

Spec == Init /\ [][Next]_vars

\* parse runs its do-while loop to the end once it is called: a step of the
\* loop that can be taken is taken.
FairSpec == Spec /\ WF_vars(Shift \/ Reduce \/ Accept \/ Reject)

\* The tool started with --run and without --parse.  main runs its sections
\* to the end once it is called, and the event loop calls the callback of a
\* timer that is due.
NextRun ==
  \/ \E argv \in Argvs : argv.run /\ ~argv.parse /\ CliMain(argv)
  \/ CliDescribe
  \/ CliExecOnData
  \/ CliNoParse
  \/ CliTimer
  \/ CliExit

RunSpec ==
  /\ Init
  /\ [][NextRun]_vars
  /\ WF_vars(CliDescribe \/ CliExecOnData \/ CliNoParse \/ CliTimer)

(***************************************************************************)
(* Properties.                                                             *)
(***************************************************************************)
\* The parse call has ended, by returning or by throwing.
Ended == pc \in {"returned", "threw"}

\* The text of the current (or last) parse call.
Parsing(text) == tokenizer.string = text

Bit == {0, 1}

\* The chips whose text is the plain rendering of their declarations.
DescribedChips == Chips \cup {CoreChip, OtherChip}

\* The number of newlines before offset off, and the offset of the first
\* character of the line that holds offset off.
NewlinesBefore(string, off) ==
  Cardinality({k \in 1..off : string[k] = NL})

LineBeginOffset(string, off) ==
  IF \E k \in 1..off : string[k] = NL
  THEN Max({k \in 1..off : string[k] = NL})
  ELSE 0

\* The offset of what an "Unexpected token" error is about: the lookahead
\* the table has no entry for, or the character no lex rule matches.
OffendingOffset ==
  IF thrown.site = "getNextToken" THEN tokenizer.cursor ELSE token.startOffset

\* C1: each parse call produces a fresh AST: whenever a call returns, the AST
\* holds exactly the inputs, outputs and parts its own text declares, and
\* nothing an earlier call's text declared.
C1_FreshAST ==
  pc = "returned" =>
    \A c \in DescribedChips :
      Parsing(ChipText(c)) =>
        /\ returned.inputs = DeclaredNames(c, "IN")
        /\ returned.outputs = DeclaredNames(c, "OUT")
        /\ returned.parts = DeclaredParts(c)

\* C2: the first parse on a freshly loaded parser returns, for a well-formed
\* chip, the Chip with the name after CHIP, the IN names, the OUT names and
\* the ChipCalls of the PARTS sections (gate name, arguments as name and
\* value), all in source order; so it does for the Mux chip of the repository.
C2_FirstParseAST ==
  (pc = "returned" /\ calls = 1) =>
    /\ \A c \in DescribedChips :
         Parsing(ChipText(c)) => returned = DeclaredAST(c)
    /\ Parsing(MuxText) => returned = DeclaredAST(MuxChip)

C2_Witness ==
  /\ pc = "returned"
  /\ calls = 1
  /\ Parsing(MuxText)
  /\ Len(returned.parts) = 4

\* C3: the Mux chip as wired in its PARTS section computes out = a when
\* sel = 0 and out = b otherwise, for every 1-bit a, b, sel.
C3_MuxComputesMux ==
  (pc = "returned" /\ calls = 1 /\ Parsing(MuxText)) =>
    \A a \in Bit, b \in Bit, sel \in Bit :
      Evaluate(returned, (nA :> a) @@ (nB :> b) @@ (nSel :> sel))[nOut]
        = IF sel = 0 THEN a ELSE b

C3_Witness ==
  /\ pc = "returned"
  /\ calls = 1
  /\ Parsing(MuxText)
  /\ Evaluate(returned, (nA :> 1) @@ (nB :> 0) @@ (nSel :> 0))[nOut] = 1
  /\ Evaluate(returned, (nA :> 1) @@ (nB :> 0) @@ (nSel :> 1))[nOut] = 0
  /\ Evaluate(returned, (nA :> 0) @@ (nB :> 1) @@ (nSel :> 1))[nOut] = 1

\* C4 as stated: parse accepts a chip with any number of IN / OUT / PARTS
\* sections, zero or more.
C4_AnyNumberOfSections ==
  /\ \A c \in Chips : (Ended /\ Parsing(ChipText(c))) => pc = "returned"
  /\ (Ended /\ Parsing(FooEmptyText)) => pc = "returned"

\* C4 as amended: parse accepts a chip of IN / OUT / PARTS sections exactly
\* when its body holds three of them (of any kinds, in any order); with zero,
\* one, two or four sections it throws.
C4_ExactlyThreeSections ==
  /\ \A c \in Chips :
       (Ended /\ Parsing(ChipText(c))) =>
         (pc = "returned" <=> Len(c.sections) = 3)
  /\ (Ended /\ Parsing(FooEmptyText)) => pc = "threw"

C4_Witness ==
  /\ pc = "returned"
  /\ \E c \in Chips :
       /\ Parsing(ChipText(c))
       /\ Len(c.sections) = 3
       /\ \A k \in 1..3 : c.sections[k].kind = "IN"

\* C5 as stated: the keywords are reserved: parse rejects a text that uses
\* one as the chip name or as a pin name of an IN or OUT list.
C5_KeywordsReserved ==
  \A c \in KeywordAsChipName \cup KeywordAsInPin \cup KeywordAsOutPin :
    (Ended /\ Parsing(ChipText(c))) => pc = "threw"

\* C5 as amended: a keyword is accepted as the chip name and as a pin name of
\* an IN or OUT list, and is then the name in the AST; parse rejects it as
\* the gate name of a part, as an argument name and as an argument value.
C5_KeywordsAreNames ==
  /\ \A c \in KeywordAsChipName \cup KeywordAsInPin \cup KeywordAsOutPin :
       (Ended /\ Parsing(ChipText(c))) =>
         /\ pc = "returned"
         /\ calls = 1 => returned = DeclaredAST(c)
  /\ \A c \in KeywordAsGate \cup KeywordAsArgName \cup KeywordAsArgValue :
       (Ended /\ Parsing(ChipText(c))) => pc = "threw"

C5_Witness ==
  /\ pc = "returned"
  /\ Parsing(ChipText(SlotChip(kwIN, nB, nOut, nNot, nIn, nA)))
  /\ returned.name = kwIN

\* C6: parse accepts a pin declaration ID[Number] in an IN or OUT section and
\* records Number as the pin's size; a pin without brackets has size 1.
C6_SizedPins ==
  /\ (Ended /\ Parsing(ChipText(SlotChip(nFoo, SizedPin, nOut, nNot, nIn, nA)))) =>
       /\ pc = "returned"
       /\ calls = 1 =>
            returned.inputs = <<[name |-> nA, size |-> 1], [name |-> nB, size |-> 8]>>
  /\ (Ended /\ Parsing(ChipText(SlotChip(nFoo, nB, SizedPin, nNot, nIn, nA)))) =>
       /\ pc = "returned"
       /\ calls = 1 => returned.outputs = <<[name |-> nB, size |-> 8]>>
  /\ (pc = "returned" /\ calls = 1 /\ Parsing(ChipText(CoreChip))) =>
       returned.inputs = <<[name |-> nA, size |-> 1], [name |-> nB, size |-> 1]>>

\* C7: parse accepts, as the value of a part argument, a plain pin name, a
\* single bit pin[i], a range pin[i..j], and the literals true and false.
C7_ArgumentValues ==
  \A v \in ArgValues :
    (Ended /\ Parsing(ChipText(ArgValueChip(v)))) => pc = "returned"

\* C8: parsing `CHIP Foo { IN a IN b; }` fails at the second IN: the error
\* names the token IN, line 1 and the keyword's column, and echoes the source
\* line with the caret under the keyword.
C8_FooInInError ==
  (Ended /\ Parsing(FooInInText)) =>
    /\ pc = "threw"
    /\ thrown.kind = "UnexpectedToken"
    /\ thrown.symbol = kwIN
    /\ thrown.line = 1
    /\ thrown.column = token.startOffset
    /\ token.startOffset > 12
    /\ SubSeq(FooInInText, thrown.column + 1, thrown.column + 2) = kwIN
    /\ thrown.hasLineData
    /\ thrown.lineSource = FooInInText
    /\ thrown.pad = thrown.column

C8_Witness ==
  /\ pc = "threw"
  /\ Parsing(FooInInText)
  /\ thrown.symbol = kwIN
  /\ Len(inputs) = 0

\* C9 as stated: the location of a parse failure is 1-based in line and in
\* column: a token at the first character of a line is reported at column 1,
\* and one on the first line at line 1.
C9_OneBasedLineAndColumn ==
  (pc = "threw" /\ thrown.kind = "UnexpectedToken") =>
    /\ thrown.line = 1 + NewlinesBefore(tokenizer.string, OffendingOffset)
    /\ thrown.column =
         1 + OffendingOffset - LineBeginOffset(tokenizer.string, OffendingOffset)

\* C9 as amended: the line is 1-based and the column 0-based: a token at the
\* first character of a line is reported at column 0, and one on the first
\* line at line 1.
C9_OneBasedLineZeroBasedColumn ==
  (pc = "threw" /\ thrown.kind = "UnexpectedToken") =>
    /\ thrown.line = 1 + NewlinesBefore(tokenizer.string, OffendingOffset)
    /\ thrown.column =
         OffendingOffset - LineBeginOffset(tokenizer.string, OffendingOffset)

C9_Witness ==
  /\ pc = "threw"
  /\ thrown.kind = "UnexpectedToken"
  /\ thrown.line > 1
  /\ thrown.column = 0
  /\ OffendingOffset = LineBeginOffset(tokenizer.string, OffendingOffset)

\* C10 as stated: every syntax violation, a text that ends early and the
\* empty text included, makes parse fail with an error that carries the line
\* and the column of the violation.
C10_EveryErrorLocated ==
  /\ (Ended /\ tokenizer.string \in TruncatedTexts \cup StrayTexts) => pc = "threw"
  /\ pc = "threw" => {"line", "column"} \subseteq DOMAIN thrown

\* C10 as amended: a text that ends before the chip is complete, the empty
\* text included, makes parse fail with "Unexpected end of input.", which
\* carries no line and no column; a violation at a token or a character of
\* the text makes it fail with an error that carries the line and the column.
C10_LocatedUnlessAtEnd ==
  /\ (Ended /\ tokenizer.string \in TruncatedTexts) =>
       /\ pc = "threw"
       /\ thrown.kind = "UnexpectedEndOfInput"
  /\ (Ended /\ tokenizer.string \in StrayTexts) =>
       /\ pc = "threw"
       /\ thrown.kind = "UnexpectedToken"
  /\ pc = "threw" =>
       IF thrown.kind = "UnexpectedEndOfInput"
       THEN /\ token = EOF_TOKEN
            /\ DOMAIN thrown \cap {"line", "column"} = {}
       ELSE /\ {"line", "column"} \subseteq DOMAIN thrown
            /\ thrown.line >= 1
            /\ thrown.column >= 0
            /\ token # EOF_TOKEN

C10_Witness ==
  /\ pc = "threw"
  /\ Parsing(FooOpenText)
  /\ thrown.kind = "UnexpectedEndOfInput"
  /\ token = EOF_TOKEN

\* C11: comments and whitespace do not change the result of parse: the text
\* of a chip with a line comment, a block comment or more whitespace put
\* between any two of its lexemes is accepted, with the AST the plain text
\* gives.
C11_CommentsAndWhitespaceSkipped ==
  (Ended /\ calls = 1) =>
    /\ \A text \in FilledTexts \cup {TwiceCommentedText, ChipText(CoreChip)} :
         Parsing(text) =>
           /\ pc = "returned"
           /\ returned = DeclaredAST(CoreChip)
    /\ Parsing(MuxText) =>
         /\ pc = "returned"
         /\ returned = DeclaredAST(MuxChip)

C11_Witness ==
  /\ pc = "returned"
  /\ calls = 1
  /\ Parsing(FilledText(9, <<"/","/"," ","c",";",NL>>))
  /\ returned = DeclaredAST(CoreChip)
  /\ tokenizer.currentLine = 7

\* C12: an identifier is a maximal run of word characters: a name that
\* begins with the letters of a keyword and goes on (INC, OUTa, CHIPS,
\* PARTSx) is one ID token, so a chip that uses it as a pin name, as its own
\* name, as a gate name or as an argument value is accepted with that name in
\* the AST.
C12_IdentifierMaximalMunch ==
  \A c \in KeywordPrefixedChips :
    (Ended /\ Parsing(ChipText(c))) =>
      /\ pc = "returned"
      /\ calls = 1 => returned = DeclaredAST(c)

\* The positions of cli.out that hold an item of one of the tags.
Positions(tags) == {k \in 1..Len(cli.out) : cli.out[k].tag \in tags}

\* The tags of a gate's specification, of a truth table and of a result table.
TableTags ==
  {"gate specification", "Truth table:", "Truth table for data:",
   "Current results for pins:", "table"}

\* --gate names something that is no built-in gate, in --describe or
\* --exec-on-data mode.
UnloadableGateMode ==
  /\ cli.pc # "off"
  /\ Truthy(cli.argv.gate)
  /\ cli.argv.gate \notin BuiltInGates
  /\ cli.argv.describe \/ cli.argv.execOnData.given

\* The tool has reported the gate as unknown and then listed the built-in
\* gates, as the last things it printed.
ReportedUnknown ==
  /\ Len(cli.out) >= 2
  /\ cli.out[Len(cli.out) - 1] = Item("Unknown gate", cli.argv.gate)
  /\ cli.out[Len(cli.out)] = Item("Built-in gates", BuiltInGates)

\* C13: run with --parse on an HDL file that holds a syntax error, the tool
\* ends with exit code 2.
C13_ParseErrorExitCode2 ==
  (/\ cli.pc = "exited"
   /\ cli.argv.parse
   /\ cli.argv.gate \in {pathBad, pathCut}
   /\ pc = "threw") => cli.exitCode = 2

\* C14 as stated: when --gate names a gate that is no built-in, in
\* --describe or --exec-on-data mode, the tool prints no specification and no
\* table, and ends with exit code 1 having reported the gate as unknown and
\* listed the built-in gates.
C14_UnknownGateReported ==
  UnloadableGateMode =>
    /\ cli.pc \in {"describe", "exec", "exited"}
    /\ Positions(TableTags) = {}
    /\ cli.pc = "exited" => (cli.exitCode = 1 /\ ReportedUnknown)

\* C14 as amended: in that case the tool prints no specification and no
\* table and ends with exit code 1; it reports the gate as unknown and lists
\* the built-in gates, unless --describe is given and --gate is the path of
\* a file that exists and is not empty: then it reports that --describe
\* works only with built-in gates, and neither calls the gate unknown nor
\* lists the gates after that.
C14_UnknownGateOrFileReported ==
  UnloadableGateMode =>
    /\ cli.pc \in {"describe", "exec", "exited"}
    /\ Positions(TableTags) = {}
    /\ cli.pc = "exited" =>
         /\ cli.exitCode = 1
         /\ IF cli.argv.describe /\ Truthy(cli.hdlFile)
            THEN /\ cli.out[Len(cli.out)] =
                      Line("--describe works only with built-in gates")
                 /\ Positions({"Unknown gate"}) = {}
            ELSE ReportedUnknown

C14_Witness ==
  /\ cli.pc = "exited"
  /\ cli.argv.gate = nFoo
  /\ cli.argv.execOnData.given
  /\ ~cli.argv.describe
  /\ cli.exitCode = 1
  /\ cli.out = <<Item("Unknown gate", nFoo), Item("Built-in gates", BuiltInGates)>>

\* C15: in --exec-on-data mode without --run, when execOnData returns
\* conflicts, the tool first reports every conflicting row with its pins,
\* then prints the result table, once, and ends with exit code 0: no
\* exception is raised.
C15_ConflictsCollected ==
  (/\ cli.pc \in {"parse", "loop", "exited"}
   /\ cli.argv.execOnData.given
   /\ ~cli.argv.run
   /\ cli.argv.gate \in BuiltInGates) =>
    LET r == ExecOnData(cli.argv.gate,
                        parseInputData(cli.argv.execOnData.rows,
                                       FORMAT_VALUES[FormatOf(cli.argv)].radix))
        n == Len(r.conflicts)
        tables == {k \in Positions({"table"}) : cli.out[k].by = "exec"}
    IN n > 0 =>
         /\ Cardinality(tables) = 1
         /\ \A k \in tables :
              /\ k = Len(cli.out)
              /\ cli.out[k].table = r.result
              /\ k > n + 1
              /\ cli.out[k - n - 1] = Item("Found conflicts", n)
              /\ \A j \in 1..n :
                   cli.out[k - n - 1 + j] =
                     Item("conflict", [row |-> r.conflicts[j].row,
                                       pinNames |-> DOMAIN r.conflicts[j].pins])
         /\ Positions({"uncaught exception"}) = {}
         /\ cli.pc = "exited" => cli.exitCode = 0

C15_Witness ==
  /\ cli.pc = "exited"
  /\ cli.exitCode = 0
  /\ cli.argv.gate = nAnd
  /\ cli.argv.execOnData = Data(DataConflict)
  /\ ~cli.argv.run
  /\ ~cli.argv.describe
  /\ cli.out[1] = Item("Found conflicts", 2)
  /\ cli.out[2] = Item("conflict", [row |-> 0, pinNames |-> {nOut}])
  /\ cli.out[3] = Item("conflict", [row |-> 2, pinNames |-> {nOut}])
  /\ cli.out[4].tag = "table"
  /\ Len(cli.out) = 4


\* C16: a parse call that throws leaves no residue: when the first call on a
\* freshly loaded parser threw and the second call returns for the text of
\* OtherChip (which shares no name with the texts that fail), the AST holds
\* exactly what OtherChip declares, and so none of the pins or parts of the
\* failed text.
C16_FailedParseLeavesNoResidue ==
  (pc = "returned" /\ calls = 2 /\ prev = "threw"
     /\ Parsing(ChipText(OtherChip))) =>
    returned = DeclaredAST(OtherChip)

\* What getOptions() returns.
getOptions == options

\* The AST object of the first call that returned, as a reader of it sees it
\* now: its inputs, outputs and parts properties are the module's arrays
\* themselves, which the later calls push to.
HeldAST ==
  [held EXCEPT !.inputs = inputs, !.outputs = outputs, !.parts = parts]

\* C17: an AST returned by parse is not changed by later parse calls: the
\* first AST returned reads, at any later time, as it read when it was
\* returned.
C17_ReturnedASTUnchanged ==
  (~IsNull(held) /\ "inputs" \in DOMAIN held) => HeldAST = held

\* C18: per-call options never leak: once parse(string, parseOptions) has
\* ended, by returning or by throwing, getOptions() returns the options that
\* were in force before the call.
C18_OptionsNeverLeak ==
  Ended => getOptions = globalOptions


\* C19: parse is total on finite texts: a call that has begun ends; when it
\* ends by returning, what it returns is a Chip AST (never undefined, never
\* the bare value true), and otherwise it ends by throwing a SyntaxError.
C19_ParseIsTotal ==
  /\ [](pc = "returned" =>
          /\ "type" \in DOMAIN returned
          /\ returned.type = "Chip")
  /\ [](pc = "threw" =>
          thrown.kind \in {"UnexpectedToken", "UnexpectedEndOfInput"})
  /\ (pc = "parsing") ~> Ended

\* A call returned a Chip after an earlier call had thrown.
C19_Witness ==
  /\ pc = "returned"
  /\ calls = 2
  /\ prev = "threw"
  /\ "type" \in DOMAIN returned
  /\ returned.type = "Chip"


\* C20: parse accepts only a text that is exactly one chip: when it returns,
\* the whole input has been consumed and the stack is back to the single
\* initial state 0; a text with a token after the chip's closing `}`, such as
\* a second CHIP definition, ends in a throw; a text with only whitespace or
\* a comment after the `}` parses to the chip.
C20_ExactlyOneChip ==
  /\ pc = "returned" =>
       /\ stack = <<StateEntry(0)>>
       /\ ~hasMoreTokens(tokenizer)
       /\ tokenizer.cursor > Len(tokenizer.string)
  /\ \A t \in TrailingTexts : (Parsing(t) /\ Ended) => pc = "threw"
  /\ \A t \in TrailedTexts :
       (Parsing(t) /\ Ended /\ calls = 1) =>
         /\ pc = "returned"
         /\ returned = DeclaredAST(CoreChip)

\* The parse of CoreChip's text followed by a second chip definition threw at
\* the second CHIP.
C20_Witness ==
  /\ pc = "threw"
  /\ Parsing(ChipText(CoreChip) \o <<NL>> \o ChipText(OtherChip))
  /\ thrown.kind = "UnexpectedToken"
  /\ thrown.symbol = kwCHIP
  /\ thrown.line = 7


\* The location of token tok is exact in the text of the call.
ExactLocation(tok) ==
  LET string == tokenizer.string
  IN /\ tok.startOffset \in 0..(Len(string) - 1)
     /\ SubSeq(string, tok.startOffset + 1, tok.endOffset) = tok.value
     /\ tok.endOffset = tok.startOffset + Len(tok.value)
     /\ tok.startLine = 1 + NewlinesBefore(string, tok.startOffset)
     /\ tok.startColumn =
          tok.startOffset - LineBeginOffset(string, tok.startOffset)

\* C21: tokenizer location tracking is exact: for every token getNextToken
\* returns from the text (the lookahead and the token last shifted),
\* startOffset is the index of its first character, endOffset is startOffset
\* plus its length, startLine is 1 plus the number of newlines before
\* startOffset, those inside skipped whitespace and comments included, and
\* startColumn is startOffset minus the offset of the first character of its
\* line.
C21_TokenLocationExact ==
  /\ ("type" \in DOMAIN token /\ token.type # EOF) => ExactLocation(token)
  /\ ("type" \in DOMAIN shiftedToken /\ shiftedToken.type # EOF) =>
       ExactLocation(shiftedToken)

\* The lookahead is the `}` of CoreChip's text, with a block comment of three
\* lines put before it: line 8, column 3.
C21_Witness ==
  /\ Parsing(FilledText(Len(CoreLexemes),
                        <<"/","*","*",NL," ","*"," ","}",NL," ","*","/">>))
  /\ "type" \in DOMAIN token
  /\ token.value = <<"}">>
  /\ token.startOffset = 68
  /\ token.startLine = 8
  /\ token.startColumn = 3


\* The runs of runSlice of the process: the timers it has set, over a list of
\* at least one row.
Runs ==
  IF "timers" \in DOMAIN cli /\ cli.pc # "exited"
  THEN {cli.timers[i] : i \in {j \in 1..Len(cli.timers) :
                                 Len(cli.timers[j].data) >= 1}}
  ELSE {}

\* Row k of the run started by `by` (describe or exec) is in the list, and it
\* is the row the last step printed.
HasRow(by, k) == \E t \in Runs : t.by = by /\ k \in 1..Len(t.data)

PrintedRow(by, k) ==
  \E t \in Runs :
    /\ t.by = by
    /\ k \in 1..Len(t.data)
    /\ cli.shown = PrintedTable(by, <<t.data[k]>>, FormatOf(cli.argv), <<>>)

\* A step that starts a run (main calls runSlice with index 0) or goes on
\* with one (the callback of its timer) prints the row of its index alone and
\* hands the next index, 0 after the last row, to the step after it.
RunSliceStep ==
  /\ "timers" \in DOMAIN cli
  /\ "timers" \in DOMAIN cli'
  /\ cli'.timers # cli.timers
  /\ Len(cli'.timers[Len(cli'.timers)].data) >= 1
  => LET next == cli'.timers[Len(cli'.timers)]
         n == Len(next.data)
         index == IF Len(cli'.timers) > Len(cli.timers)
                  THEN 0 ELSE Head(cli.timers).index
     IN /\ Len(cli'.timers) = Len(cli.timers) =>
             /\ next.by = Head(cli.timers).by
             /\ next.data = Head(cli.timers).data
        /\ index \in 0..(n - 1)
        /\ cli'.shown.by = next.by
        /\ cli'.shown.table = <<next.data[index + 1]>>
        /\ next.index = (index + 1) % n

\* C22: in run mode over a list of n >= 1 rows, runSlice prints exactly one
\* row per step, in index order 0, 1, ..., n-1, then again from row 0, and so
\* on forever: the index of every step is within 0..n-1, and every row is
\* printed again and again.
C22_RunSliceCycles ==
  /\ [](\A t \in Runs : t.index \in 0..(Len(t.data) - 1))
  /\ [][RunSliceStep]_vars
  /\ \A by \in {"describe", "exec"}, k \in 1..4 :
       [](HasRow(by, k) => <>PrintedRow(by, k))

\* The run of --exec-on-data over the three rows of DataConflict has printed
\* rows 0, 1 and 2 and, at the third callback, row 0 again.
C22_Witness ==
  /\ cli.pc = "loop"
  /\ cli.argv.execOnData = Data(DataConflict)
  /\ ~cli.argv.describe
  /\ cli.ticks = 3
  /\ PrintedRow("exec", 1)
  /\ Head(cli.timers).index = 1

\* C23: with --exec-on-data and --run together execOnData of the gate is
\* never called and no conflict is reported: every table the exec section
\* prints is one row of the parsed data, as parseInputData returned it and
\* with no conflicting row marked, and main returns from the run branch,
\* before the eager execOnData path and before the --parse section.
ExecRun ==
  /\ "argv" \in DOMAIN cli
  /\ cli.argv.execOnData.given
  /\ cli.argv.run

RowOfData(t) ==
  LET data == parseInputData(cli.argv.execOnData.rows,
                             FORMAT_VALUES[FormatOf(cli.argv)].radix)
  IN /\ t.conflictingRows = <<>>
     /\ \/ \E k \in 1..Len(data) : t.table = <<data[k]>>
        \/ data = <<>> /\ t.table = <<>>

PartSources(part) ==
  {part.arguments[k].value :
     k \in {i \in 1..Len(part.arguments) :
              part.arguments[i].name \in GateInputPins(part.name)}}

PartDestinations(part) ==
  {part.arguments[k].value :
     k \in {i \in 1..Len(part.arguments) :
              part.arguments[i].name \notin GateInputPins(part.name)}}

WritersOf(ast, net) ==
  {k \in 1..Len(ast.parts) : net \in PartDestinations(ast.parts[k])}

\* C24: in the AST parse returns for the Mux file each of nel, A, B and out is
\* written by exactly one part, no input pin of the chip is written, and every
\* net a part reads is an input pin of the chip or is written by a part that
\* comes earlier in the PARTS list.
C24_MuxWiringSound ==
  (pc = "returned" /\ calls = 1 /\ Parsing(MuxText)) =>
    /\ \A net \in {nNel, nCapA, nCapB, nOut} :
         Cardinality(WritersOf(returned, net)) = 1
    /\ \A k \in 1..Len(returned.parts) :
         /\ PartDestinations(returned.parts[k]) \subseteq {nNel, nCapA, nCapB, nOut}
         /\ Cardinality(PartDestinations(returned.parts[k])) = 1
         /\ \A source \in PartSources(returned.parts[k]) :
              \/ \E i \in 1..Len(returned.inputs) : returned.inputs[i] = source
              \/ \E j \in 1..(k - 1) : source \in PartDestinations(returned.parts[j])

\* C24 witness: the Mux file parsed; its last part reads A and B, which the
\* second and third parts write, and the second reads nel, which the first
\* writes.
C24_Witness ==
  /\ pc = "returned"
  /\ calls = 1
  /\ Parsing(MuxText)
  /\ PartSources(returned.parts[4]) = {nCapA, nCapB}
  /\ WritersOf(returned, nCapA) = {2}
  /\ WritersOf(returned, nCapB) = {3}
  /\ nNel \in PartSources(returned.parts[2])
  /\ WritersOf(returned, nNel) = {1}
====
